---- MODULE Spec2Model ----
(***************************************************************************)
(* A model of app.py: the lazily connected Mongo collection, the /api      *)
(* catalog reader, the form page, the /submit handler and the success      *)
(* page, served by the worker threads of the Flask server.                 *)
(*                                                                         *)
(* Text is a sequence of one-character strings.  A worker thread runs one  *)
(* request at a time; a step of a handler is one access to state that      *)
(* other threads or other processes share (the mongo_client global, the    *)
(* collection, data.json).                                                 *)
(***************************************************************************)
EXTENDS Integers, Sequences, FiniteSets, TLC

\* ------------------------------------------------------------------ bounds

\* the longest form field the clients send
MaxStr == 1
\* the longest data.json
MaxLen == 5
\* the worker threads of the server
NumWorkers == 2
\* the POST /submit requests the clients send in one run
MaxPosts == 2

\* ----------------------------------------------------------------- strings

RECURSIVE SeqsUpTo(_, _)
\* every sequence over `chars` of length at most n
SeqsUpTo(chars, n) ==
    IF n = 0 THEN {<<>>}
    ELSE LET shorter == SeqsUpTo(chars, n - 1)
         IN  shorter \cup {Append(s, c) : s \in {x \in shorter : Len(x) = n - 1}, c \in chars}

Whitespace == {" "}

RECURSIVE LStrip(_)
LStrip(s) ==
    IF s # <<>> /\ Head(s) \in Whitespace THEN LStrip(Tail(s)) ELSE s

RECURSIVE RStrip(_)
RStrip(s) ==
    IF s # <<>> /\ s[Len(s)] \in Whitespace THEN RStrip(SubSeq(s, 1, Len(s) - 1)) ELSE s

\* Strip with str.lstrip in place of str.strip
StripLeftOnly(s) == LStrip(s)

\* str.strip()
Strip(s) == RStrip(LStrip(s))

\* ------------------------------------------------------------------- JSON

\* A decoded JSON value: <<"num", n>>, <<"list", <<v1, ..., vk>>>> or
\* <<"dict">> (the only object this alphabet can write is {}).
Digits == {"1", "2"}
JsonChars == {"[", "]", ",", "{", "}"} \cup Digits

DigitValue(c) == IF c = "1" THEN 1 ELSE 2

Fail == [ok |-> FALSE, val |-> <<"none">>, rest |-> <<>>]
Ok(v, rest) == [ok |-> TRUE, val |-> v, rest |-> rest]

RECURSIVE ScanNumber(_, _)
\* the longest run of digits at the head of s, read as a decimal integer
ScanNumber(acc, s) ==
    IF s # <<>> /\ Head(s) \in Digits
    THEN ScanNumber(acc * 10 + DigitValue(Head(s)), Tail(s))
    ELSE Ok(<<"num", acc>>, s)

RECURSIVE ParseValue(_), ParseItems(_, _)
\* json.decoder.JSONDecoder.raw_decode on this alphabet
ParseValue(s) ==
    IF s = <<>> THEN Fail
    ELSE IF Head(s) \in Digits THEN ScanNumber(0, s)
    ELSE IF Head(s) = "{"
         THEN IF Len(s) >= 2 /\ s[2] = "}" THEN Ok(<<"dict">>, SubSeq(s, 3, Len(s))) ELSE Fail
    ELSE IF Head(s) = "["
         THEN IF Len(s) >= 2 /\ s[2] = "]"
              THEN Ok(<<"list", <<>>>>, SubSeq(s, 3, Len(s)))
              ELSE ParseItems(<<>>, Tail(s))
    ELSE Fail

\* the items of an array after "[" or ",": a value, then "," or "]"
ParseItems(acc, s) ==
    LET r == ParseValue(s)
    IN  IF ~r.ok \/ r.rest = <<>> THEN Fail
        ELSE IF Head(r.rest) = "]" THEN Ok(<<"list", Append(acc, r.val)>>, Tail(r.rest))
        ELSE IF Head(r.rest) = "," THEN ParseItems(Append(acc, r.val), Tail(r.rest))
        ELSE Fail

\* json.load: one value and nothing after it, else JSONDecodeError
Loads(s) ==
    LET r == ParseValue(s)
    IN  IF r.ok /\ r.rest = <<>> THEN r ELSE Fail

IsList(v) == v[1] = "list"

RECURSIVE DigitsOf(_)
DigitsOf(n) ==
    IF n < 10 THEN <<IF n = 1 THEN "1" ELSE IF n = 2 THEN "2" ELSE "0">>
    ELSE Append(DigitsOf(n \div 10),
                IF n % 10 = 1 THEN "1" ELSE IF n % 10 = 2 THEN "2" ELSE "0")

RECURSIVE Dumps(_), DumpItems(_)
\* the JSON text of a decoded value, as jsonify writes it
Dumps(v) ==
    IF v[1] = "num" THEN DigitsOf(v[2])
    ELSE IF v[1] = "dict" THEN <<"{", "}">>
    ELSE <<"[">> \o DumpItems(v[2]) \o <<"]">>

DumpItems(items) ==
    IF items = <<>> THEN <<>>
    ELSE IF Len(items) = 1 THEN Dumps(items[1])
    ELSE Dumps(items[1]) \o <<",">> \o DumpItems(Tail(items))

\* ------------------------------------------------------------------ state

VARIABLES
    MONGO_URI,        \* os.environ.get("MONGO_URI"): "None" or the connection string
    mongo_client,     \* the module global: NoClient or the identity of a MongoClient
    clients_created,  \* how many times MongoClient(...) has been called
    datastore,        \* "up": insert_one succeeds; "down": the driver raises
    docs,             \* the documents of the collection, in insertion order
    posts,            \* the POST /submit requests received so far
    redirects,        \* the 302 responses returned so far
    file_text,        \* the content of data.json when it is there
    file_state,       \* "present", "missing" or "unreadable"
    pc,               \* per worker: where its handler stands
    request,          \* per worker: request.form as sent
    name,             \* per worker: the locals of submit()
    email,
    message,
    collection,       \* per worker: the client get_mongo_collection returned from
    inserts,          \* per worker: the insert_one calls of this request
    exc,              \* per worker: the class of the exception its try block raised
    resp              \* per worker: the response of the request

mongo == <<MONGO_URI, mongo_client, clients_created>>
store == <<datastore, docs>>
counters == <<posts, redirects>>
files == <<file_text, file_state>>
locals == <<request, name, email, message, collection, inserts, exc>>
vars == <<mongo, store, counters, files, pc, locals, resp>>

\* mongo_client = None
NoClient == 0
ConnectionString == "mongodb://db"

\* the exception classes the handlers of submit() tell apart
ExceptionClasses == {"RuntimeError", "PyMongoError", "Exception"}

NoForm == [name |-> <<>>, email |-> <<>>, message |-> <<>>]

NoResponse ==
    [status |-> 0, page |-> "", location |-> "", notice |-> "",
     name |-> <<>>, email |-> <<>>, message |-> <<>>, json |-> <<>>, error |-> ""]

\* render_template(page, name=..., email=..., message=...), status, after flash(notice)
Render(page, status, notice, n, e, m) ==
    [NoResponse EXCEPT !.status = status, !.page = page, !.notice = notice,
                       !.name = n, !.email = e, !.message = m]

\* redirect(url_for("success"))
Redirect == [NoResponse EXCEPT !.status = 302, !.location = "/success"]

\* jsonify(data)
Jsonify(text) == [NoResponse EXCEPT !.status = 200, !.json = text]

\* jsonify({"error": msg}), 500
JsonError(msg) == [NoResponse EXCEPT !.status = 500, !.error = msg]

\* ---------------------------------------------------------------- inputs

FormChars == {" ", "a"}
Fields == SeqsUpTo(FormChars, MaxStr)

\* every form over the field alphabet
Forms == {[name |-> n, email |-> e, message |-> m] : n \in Fields, e \in Fields, m \in Fields}

\* the forms of the concurrent runs: one that validates and has whitespace to
\* trim in each field, one with a blank name, one with no email
SampleForms ==
    { [name |-> <<" ", "A", "n", "n">>, email |-> <<"a", "@", "x", " ">>, message |-> <<" ">>],
      [name |-> <<" ", " ">>, email |-> <<"x", "@", "y">>, message |-> <<"h", "i">>],
      [name |-> <<"A">>, email |-> <<>>, message |-> <<>>] }

\* the forms of the runs that are about POST /submit alone
SubmitForms == Forms \cup SampleForms

Texts == SeqsUpTo(JsonChars, MaxLen)

\* the catalogs of the runs that are not about parsing
SampleTexts == { <<"[", "1", ",", "{", "}", "]">>, <<"{", "}">>, <<"[", "1">> }

Workers == 1..NumWorkers

\* ----------------------------------------------------------------- Init

InitWith(W, uris, texts) ==
    /\ MONGO_URI \in uris
    /\ mongo_client = NoClient
    /\ clients_created = 0
    /\ datastore \in {"up", "down"}
    /\ docs = <<>>
    /\ posts = 0
    /\ redirects = 0
    /\ file_text \in texts
    /\ file_state \in {"present", "missing"}
    /\ pc = [t \in W |-> "idle"]
    /\ request = [t \in W |-> NoForm]
    /\ name = [t \in W |-> <<>>]
    /\ email = [t \in W |-> <<>>]
    /\ message = [t \in W |-> <<>>]
    /\ collection = [t \in W |-> NoClient]
    /\ inserts = [t \in W |-> 0]
    /\ exc = [t \in W |-> "None"]
    /\ resp = [t \in W |-> NoResponse]

\* --------------------------------------------------------- /submit (POST)

\* the except clauses of submit(), in order: the notice flashed for an exception
ExceptNotice(e) ==
    IF e = "RuntimeError" THEN "config"
    ELSE IF e = "PyMongoError" THEN "database"
    ELSE "unexpected"

\* an except clause: flash the notice and render the form again with status 500
Caught(t, e) ==
    /\ exc' = [exc EXCEPT ![t] = e]
    /\ resp' = [resp EXCEPT ![t] =
                    Render("form.html", 500, ExceptNotice(e), name[t], email[t], message[t])]
    /\ pc' = [pc EXCEPT ![t] = "submit_return"]

\* Invalid with "and" in place of "or"
InvalidWhenBothEmpty(n, e) == n = <<>> /\ e = <<>>

\* the basic validation of submit()
Invalid(n, e) == n = <<>> \/ e = <<>>

\* submit(), to the call of get_mongo_collection: read and strip the fields,
\* validate them
SubmitBegin(t, f) ==
    /\ pc[t] = "idle"
    /\ posts < MaxPosts
    /\ posts' = posts + 1
    /\ request' = [request EXCEPT ![t] = f]
    /\ name' = [name EXCEPT ![t] = Strip(f.name)]
    /\ email' = [email EXCEPT ![t] = Strip(f.email)]
    /\ message' = [message EXCEPT ![t] = Strip(f.message)]
    /\ IF Invalid(Strip(f.name), Strip(f.email))
       THEN /\ resp' = [resp EXCEPT ![t] =
                    Render("form.html", 400, "validation",
                           Strip(f.name), Strip(f.email), Strip(f.message))]
            /\ pc' = [pc EXCEPT ![t] = "submit_return"]
       ELSE /\ pc' = [pc EXCEPT ![t] = "get_mongo_collection"]
            /\ UNCHANGED resp
    /\ UNCHANGED <<mongo, store, redirects, files, collection, inserts, exc>>

\* GetCollectionCheck with the two tests in the other order: the client is
\* made before MONGO_URI is looked at
GetCollectionCheckClientFirst(t) ==
    /\ pc[t] = "get_mongo_collection"
    /\ IF mongo_client = NoClient
       THEN /\ pc' = [pc EXCEPT ![t] = "new_client"]
            /\ UNCHANGED <<exc, resp>>
       ELSE IF MONGO_URI = "None"
       THEN Caught(t, "RuntimeError")
       ELSE /\ pc' = [pc EXCEPT ![t] = "use_client"]
            /\ UNCHANGED <<exc, resp>>
    /\ UNCHANGED <<mongo, store, counters, files, request, name, email, message, collection, inserts>>

\* GetCollectionCheck without the test of mongo_client: every call makes a client
GetCollectionCheckAlwaysNew(t) ==
    /\ pc[t] = "get_mongo_collection"
    /\ IF MONGO_URI = "None"
       THEN Caught(t, "RuntimeError")
       ELSE /\ pc' = [pc EXCEPT ![t] = "new_client"]
            /\ UNCHANGED <<exc, resp>>
    /\ UNCHANGED <<mongo, store, counters, files, request, name, email, message, collection, inserts>>

\* get_mongo_collection(), the two tests: raise without MONGO_URI, else go on
\* to make the client when the global holds none
GetCollectionCheck(t) ==
    /\ pc[t] = "get_mongo_collection"
    /\ IF MONGO_URI = "None"
       THEN Caught(t, "RuntimeError")
       ELSE /\ pc' = [pc EXCEPT ![t] = IF mongo_client = NoClient THEN "new_client" ELSE "use_client"]
            /\ UNCHANGED <<exc, resp>>
    /\ UNCHANGED <<mongo, store, counters, files, request, name, email, message, collection, inserts>>

\* mongo_client = MongoClient(MONGO_URI, ...): the constructor does not connect
GetCollectionCreate(t) ==
    /\ pc[t] = "new_client"
    /\ clients_created' = clients_created + 1
    /\ mongo_client' = clients_created + 1
    /\ pc' = [pc EXCEPT ![t] = "use_client"]
    /\ UNCHANGED <<MONGO_URI, store, counters, files, locals, resp>>

\* db = mongo_client[DB_NAME]; return db[COLLECTION_NAME]
GetCollectionReturn(t) ==
    /\ pc[t] = "use_client"
    /\ collection' = [collection EXCEPT ![t] = mongo_client]
    /\ pc' = [pc EXCEPT ![t] = "insert_one"]
    /\ UNCHANGED <<mongo, store, counters, files, request, name, email, message, inserts, exc, resp>>

\* InsertOne with one retry of a failed insert_one
InsertOneRetried(t) ==
    /\ pc[t] = "insert_one"
    /\ IF datastore = "up"
       THEN /\ inserts' = [inserts EXCEPT ![t] = @ + 1]
            /\ docs' = Append(docs, [name |-> name[t], email |-> email[t], message |-> message[t]])
            /\ resp' = [resp EXCEPT ![t] = Redirect]
            /\ redirects' = redirects + 1
            /\ pc' = [pc EXCEPT ![t] = "submit_return"]
            /\ UNCHANGED exc
       ELSE /\ inserts' = [inserts EXCEPT ![t] = @ + 2]
            /\ \E e \in ExceptionClasses : Caught(t, e)
            /\ UNCHANGED <<docs, redirects>>
    /\ UNCHANGED <<mongo, datastore, posts, files, request, name, email, message, collection>>

\* InsertOne with the exception of a failed insert_one swallowed: the redirect
\* is returned all the same
InsertOneErrorSwallowed(t) ==
    /\ pc[t] = "insert_one"
    /\ inserts' = [inserts EXCEPT ![t] = @ + 1]
    /\ docs' = IF datastore = "up"
               THEN Append(docs, [name |-> name[t], email |-> email[t], message |-> message[t]])
               ELSE docs
    /\ resp' = [resp EXCEPT ![t] = Redirect]
    /\ redirects' = redirects + 1
    /\ pc' = [pc EXCEPT ![t] = "submit_return"]
    /\ UNCHANGED <<mongo, datastore, posts, files, request, name, email, message, collection, exc>>

\* collection.insert_one(doc) and what follows it: the redirect, or the except
\* clause of the exception the driver raised
InsertOne(t) ==
    /\ pc[t] = "insert_one"
    /\ inserts' = [inserts EXCEPT ![t] = @ + 1]
    /\ IF datastore = "up"
       THEN /\ docs' = Append(docs, [name |-> name[t], email |-> email[t], message |-> message[t]])
            /\ resp' = [resp EXCEPT ![t] = Redirect]
            /\ redirects' = redirects + 1
            /\ pc' = [pc EXCEPT ![t] = "submit_return"]
            /\ UNCHANGED exc
       ELSE /\ \E e \in ExceptionClasses : Caught(t, e)
            /\ UNCHANGED <<docs, redirects>>
    /\ UNCHANGED <<mongo, datastore, posts, files, request, name, email, message, collection>>

\* ------------------------------------------------------------ /api (GET)

\* ApiExists with the client made at the head of the handler, not lazily
ApiExistsConnectsFirst(t) ==
    /\ pc[t] = "idle"
    /\ IF file_state = "missing"
       THEN /\ resp' = [resp EXCEPT ![t] = Jsonify(Dumps(<<"list", <<>>>>))]
            /\ pc' = [pc EXCEPT ![t] = "api_return"]
       ELSE /\ pc' = [pc EXCEPT ![t] = "open"]
            /\ UNCHANGED resp
    /\ mongo_client' = IF mongo_client = NoClient THEN clients_created + 1 ELSE mongo_client
    /\ clients_created' = IF mongo_client = NoClient THEN clients_created + 1 ELSE clients_created
    /\ UNCHANGED <<MONGO_URI, store, counters, files, locals>>

\* api_list(), the test that data.json exists
ApiExists(t) ==
    /\ pc[t] = "idle"
    /\ IF file_state = "missing"
       THEN /\ resp' = [resp EXCEPT ![t] = Jsonify(Dumps(<<"list", <<>>>>))]
            /\ pc' = [pc EXCEPT ![t] = "api_return"]
       ELSE /\ pc' = [pc EXCEPT ![t] = "open"]
            /\ UNCHANGED resp
    /\ UNCHANGED <<mongo, store, counters, files, locals>>

\* ApiAnswer without the isinstance test
ApiAnswerAnyValue(text) ==
    LET r == Loads(text)
    IN  IF ~r.ok THEN JsonError("invalid JSON in backend file")
        ELSE Jsonify(Dumps(r.val))

\* what api_list() answers for a file it has opened and read
ApiAnswer(text) ==
    LET r == Loads(text)
    IN  IF ~r.ok THEN JsonError("invalid JSON in backend file")
        ELSE IF ~IsList(r.val) THEN JsonError("backend file does not contain a JSON list")
        ELSE Jsonify(Dumps(r.val))

\* api_list(), the try block: open, json.load, the isinstance test
ApiRead(t) ==
    /\ pc[t] = "open"
    /\ resp' = [resp EXCEPT ![t] =
            IF file_state = "missing" THEN JsonError("No such file or directory")
            ELSE IF file_state = "unreadable" THEN JsonError("Permission denied")
            ELSE ApiAnswer(file_text)]
    /\ pc' = [pc EXCEPT ![t] = "api_return"]
    /\ UNCHANGED <<mongo, store, counters, files, locals>>

\* -------------------------------------------------------- the two pages

\* form()
FormPage(t) ==
    /\ pc[t] = "idle"
    /\ resp' = [resp EXCEPT ![t] = Render("form.html", 200, "", <<>>, <<>>, <<>>)]
    /\ pc' = [pc EXCEPT ![t] = "page_return"]
    /\ UNCHANGED <<mongo, store, counters, files, locals>>

\* success()
SuccessPage(t) ==
    /\ pc[t] = "idle"
    /\ resp' = [resp EXCEPT ![t] = Render("success.html", 200, "", <<>>, <<>>, <<>>)]
    /\ pc' = [pc EXCEPT ![t] = "page_return"]
    /\ UNCHANGED <<mongo, store, counters, files, locals>>

\* the response leaves; the worker takes the next request
Respond(t) ==
    /\ pc[t] \in {"submit_return", "api_return", "page_return"}
    /\ pc' = [pc EXCEPT ![t] = "idle"]
    /\ request' = [request EXCEPT ![t] = NoForm]
    /\ name' = [name EXCEPT ![t] = <<>>]
    /\ email' = [email EXCEPT ![t] = <<>>]
    /\ message' = [message EXCEPT ![t] = <<>>]
    /\ collection' = [collection EXCEPT ![t] = NoClient]
    /\ inserts' = [inserts EXCEPT ![t] = 0]
    /\ exc' = [exc EXCEPT ![t] = "None"]
    /\ resp' = [resp EXCEPT ![t] = NoResponse]
    /\ UNCHANGED <<mongo, store, counters, files>>

\* ------------------------------------------------------- the environment

\* the database server goes away, or comes back
DatastoreFlip ==
    /\ datastore' = IF datastore = "up" THEN "down" ELSE "up"
    /\ UNCHANGED <<mongo, docs, counters, files, pc, locals, resp>>

\* another process removes data.json, puts it back, or takes the read permission
FileChange(s) ==
    /\ s # file_state
    /\ file_state' = s
    /\ UNCHANGED <<mongo, store, counters, file_text, pc, locals, resp>>

\* ------------------------------------------------------- specifications

\* the whole server: every handler, on concurrent workers
Init == InitWith(Workers, {"None", ConnectionString}, SampleTexts)

Next ==
    \/ \E t \in Workers, f \in SampleForms : SubmitBegin(t, f)
    \/ \E t \in Workers : GetCollectionCheck(t)
    \/ \E t \in Workers : GetCollectionCreate(t)
    \/ \E t \in Workers : GetCollectionReturn(t)
    \/ \E t \in Workers : InsertOne(t)
    \/ \E t \in Workers : ApiExists(t)
    \/ \E t \in Workers : ApiRead(t)
    \/ \E t \in Workers : FormPage(t)
    \/ \E t \in Workers : SuccessPage(t)
    \/ \E t \in Workers : Respond(t)
    \/ DatastoreFlip
    \/ \E s \in {"present", "missing"} : FileChange(s)

Spec == Init /\ [][Next]_vars

\* POST /submit alone, one request at a time, over every form of the alphabet
\* and the sample forms
InitSubmit == InitWith({1}, {"None", ConnectionString}, {<<"[", "]">>})

NextSubmit ==
    \/ \E f \in SubmitForms : SubmitBegin(1, f)
    \/ GetCollectionCheck(1)
    \/ GetCollectionCreate(1)
    \/ GetCollectionReturn(1)
    \/ InsertOne(1)
    \/ Respond(1)
    \/ DatastoreFlip

SpecSubmit == InitSubmit /\ [][NextSubmit]_vars

\* GET /api alone, over every data.json of the alphabet, with the file removed,
\* restored and made unreadable under it
InitApi == InitWith({1}, {"None"}, Texts)

NextApi ==
    \/ ApiExists(1)
    \/ ApiRead(1)
    \/ Respond(1)
    \/ \E s \in {"present", "missing", "unreadable"} : FileChange(s)

SpecApi == InitApi /\ [][NextApi]_vars

\* ------------------------------------------- what the claims speak about

\* s is empty or whitespace throughout
Blank(s) == \A i \in 1..Len(s) : s[i] \in Whitespace

\* out is raw without its leading and trailing whitespace
IsTrimOf(out, raw) ==
    \E i \in 0..Len(raw) :
        /\ i + Len(out) <= Len(raw)
        /\ out = SubSeq(raw, i + 1, i + Len(out))
        /\ \A k \in 1..i : raw[k] \in Whitespace
        /\ \A k \in (i + Len(out) + 1)..Len(raw) : raw[k] \in Whitespace
        /\ out = <<>> \/ (out[1] \notin Whitespace /\ out[Len(out)] \notin Whitespace)

\* the fields r carries are the stripped fields of the form f
EchoesForm(r, f) ==
    /\ IsTrimOf(r.name, f.name)
    /\ IsTrimOf(r.email, f.email)
    /\ IsTrimOf(r.message, f.message)

\* the form page again, with a notice and the stripped fields, and no redirect
FormAgain(r, status, notice, f) ==
    /\ r.status = status
    /\ r.page = "form.html"
    /\ r.location = ""
    /\ r.notice = notice
    /\ EchoesForm(r, f)

\* a step in which worker t receives a POST /submit
PostArrives(t) == pc[t] = "idle" /\ pc'[t] # "idle" /\ posts' = posts + 1

\* a step in which worker t finishes a POST /submit
PostReturns(t) == pc[t] # "submit_return" /\ pc'[t] = "submit_return"

\* the form of worker t's request passes the validation of the specification
Valid(f) == ~Blank(f.name) /\ ~Blank(f.email)

\* ------------------------------------------------------------------- C1

\* C1: a POST /submit whose name or email is empty or whitespace-only is
\* answered at once with status 400 and the form re-rendered with the stripped
\* fields; the step inserts no document, calls insert_one not at all and leaves
\* mongo_client and the count of clients as they were, whatever they were.
C1_InvalidFormRejected ==
    [][\A t \in DOMAIN pc :
        (PostArrives(t) /\ ~Valid(request'[t])) =>
            /\ pc'[t] = "submit_return"
            /\ FormAgain(resp'[t], 400, "validation", request'[t])
            /\ inserts'[t] = 0
            /\ UNCHANGED <<docs, mongo_client, clients_created>>]_vars

\* a whitespace-only name is refused while the handle is set and a document stored
C1_Witness ==
    \E t \in DOMAIN pc :
        /\ pc[t] = "submit_return"
        /\ resp[t].status = 400
        /\ request[t].name = <<" ", " ">>
        /\ mongo_client # NoClient
        /\ Len(docs) = 1

\* ------------------------------------------------------------------- C2

\* C2: a POST /submit with non-blank name and email that finishes while
\* MONGO_URI is set and the datastore is up has called insert_one once, has
\* appended exactly one document, whose fields are the stripped fields of the
\* form, and answers 302 to /success.
C2_ValidFormStored ==
    [][\A t \in DOMAIN pc :
        (PostReturns(t) /\ Valid(request'[t]) /\ MONGO_URI # "None" /\ datastore = "up") =>
            /\ resp'[t].status = 302
            /\ resp'[t].location = "/success"
            /\ inserts'[t] = 1
            /\ Len(docs') = Len(docs) + 1
            /\ SubSeq(docs', 1, Len(docs)) = docs
            /\ EchoesForm(docs'[Len(docs')], request'[t])]_vars

\* the form " Ann", "a@x ", " " is stored as "Ann", "a@x", ""
C2_Witness ==
    \E t \in DOMAIN pc :
        /\ pc[t] = "submit_return"
        /\ resp[t].status = 302
        /\ request[t].name = <<" ", "A", "n", "n">>
        /\ docs # <<>>
        /\ docs[Len(docs)] = [name |-> <<"A", "n", "n">>, email |-> <<"a", "@", "x">>, message |-> <<>>]

\* ------------------------------------------------------------------- C3

\* C3: without MONGO_URI no client is ever made and no document stored, and a
\* finished POST /submit with non-blank name and email has status 500, the
\* configuration notice and the form with the stripped fields, and has not
\* called insert_one.
C3_NoUriConfigurationError ==
    MONGO_URI = "None" =>
        /\ mongo_client = NoClient
        /\ clients_created = 0
        /\ docs = <<>>
        /\ \A t \in DOMAIN pc :
            (pc[t] = "submit_return" /\ Valid(request[t])) =>
                /\ FormAgain(resp[t], 500, "config", request[t])
                /\ inserts[t] = 0

C3_Witness ==
    /\ MONGO_URI = "None"
    /\ \E t \in DOMAIN pc :
        /\ pc[t] = "submit_return"
        /\ Valid(request[t])
        /\ resp[t].status = 500
        /\ request[t].message = <<" ">>

\* ------------------------------------------------------------------- C6

\* C6: a POST /submit whose try block raised PyMongoError has called
\* insert_one exactly once, answers 500 with the database notice and the form
\* with the stripped fields, not a redirect, and the worker can hand the
\* response over and go on; the step that raised stored nothing.
C6_DatabaseErrorHandled ==
    /\ [](\A t \in DOMAIN pc :
            (pc[t] = "submit_return" /\ exc[t] = "PyMongoError") =>
                /\ inserts[t] = 1
                /\ FormAgain(resp[t], 500, "database", request[t])
                /\ ENABLED Respond(t))
    /\ [][\A t \in DOMAIN pc :
            (exc[t] = "None" /\ exc'[t] = "PyMongoError") =>
                /\ PostReturns(t)
                /\ UNCHANGED <<docs, redirects>>]_vars

C6_Witness ==
    \E t \in DOMAIN pc :
        /\ pc[t] = "submit_return"
        /\ exc[t] = "PyMongoError"
        /\ mongo_client # NoClient
        /\ request[t].email = <<"a", "@", "x", " ">>

\* ------------------------------------------------------------------ C10

\* C10: the configuration notice is shown only when MONGO_URI is unset.
C10_ConfigNoticeOnlyWithoutUri ==
    \A t \in DOMAIN pc :
        (pc[t] = "submit_return" /\ resp[t].notice = "config") => MONGO_URI = "None"

\* ------------------------------------------------------------------- C7

\* C7, as stated: at most one MongoClient is ever created, and the handle,
\* once set, is never replaced.
C7_SingleClientNeverReplaced ==
    [][/\ clients_created' <= 1
       /\ mongo_client # NoClient => mongo_client' = mongo_client]_vars

\* C7, amended: the handle is set exactly when a client has been made, holds
\* one of the clients made, and is never reset to None; a call that finds the
\* handle set makes no client and returns from the handle as it then stands;
\* a client is made only by a call that found the handle unset, one at a time,
\* so at most one per worker that was past the test when the handle was set.
C7_LazyHandleNeverReset ==
    /\ [](/\ (mongo_client = NoClient) <=> (clients_created = 0)
          /\ mongo_client \in 0..clients_created
          /\ clients_created + Cardinality({t \in DOMAIN pc : pc[t] = "new_client"})
                <= Cardinality(DOMAIN pc))
    /\ [][/\ mongo_client # NoClient => mongo_client' # NoClient
          /\ \A t \in DOMAIN pc :
                /\ (pc[t] = "get_mongo_collection" /\ mongo_client # NoClient)
                        => pc'[t] \in {"get_mongo_collection", "use_client"}
                /\ (pc[t] = "use_client" /\ pc'[t] = "insert_one")
                        => (collection'[t] = mongo_client /\ UNCHANGED <<mongo_client, clients_created>>)
          /\ clients_created' # clients_created =>
                /\ clients_created' = clients_created + 1
                /\ mongo_client' = clients_created'
                /\ \E t \in DOMAIN pc : pc[t] = "new_client" /\ pc'[t] = "use_client"]_vars

\* a second request inserts through the client the first one made
C7_Witness ==
    /\ clients_created = 1
    /\ redirects = 1
    /\ \E t \in DOMAIN pc : pc[t] = "insert_one" /\ collection[t] = 1

\* ------------------------------------------------------------------- C8

\* a JSON text of this alphabet: digits, {} or a bracketed, comma-separated
\* list of JSON texts
RECURSIVE IsValueText(_), IsItemsText(_)
IsValueText(s) ==
    /\ s # <<>>
    /\ \/ \A i \in 1..Len(s) : s[i] \in Digits
       \/ s = <<"{", "}">>
       \/ /\ Len(s) >= 2
          /\ s[1] = "["
          /\ s[Len(s)] = "]"
          /\ Len(s) = 2 \/ IsItemsText(SubSeq(s, 2, Len(s) - 1))

IsItemsText(s) ==
    \/ IsValueText(s)
    \/ \E i \in 2..(Len(s) - 1) :
        /\ s[i] = ","
        /\ IsValueText(SubSeq(s, 1, i - 1))
        /\ IsItemsText(SubSeq(s, i + 1, Len(s)))

IsArrayText(s) == IsValueText(s) /\ s[1] = "["

\* r is the answer the specification gives for a data.json that holds `text`
AnswersCatalog(r, text) ==
    /\ r.page = "" /\ r.location = "" /\ r.notice = ""
    /\ IF IsArrayText(text)
       THEN r.status = 200 /\ r.json = text /\ r.error = ""
       ELSE /\ r.status = 500
            /\ r.json = <<>>
            /\ r.error = IF IsValueText(text)
                         THEN "backend file does not contain a JSON list"
                         ELSE "invalid JSON in backend file"

\* C8: every step of GET /api, GET / and GET /success leaves MONGO_URI, the
\* handle, the count of clients and the documents as they were and calls
\* neither get_mongo_collection nor insert_one, and the response it builds is
\* fixed by data.json alone (for the two pages, by nothing).
C8_PagesAndCatalogNeedNoDatastore ==
    [][\A t \in DOMAIN pc :
        (\/ pc[t] = "idle" /\ pc'[t] \in {"open", "api_return", "page_return"}
         \/ pc[t] = "open" /\ pc'[t] = "api_return") =>
            /\ UNCHANGED <<MONGO_URI, mongo_client, clients_created, docs>>
            /\ collection'[t] = NoClient
            /\ inserts'[t] = 0
            /\ exc'[t] = "None"
            /\ (pc[t] = "idle" /\ pc'[t] = "api_return") =>
                    (file_state = "missing" /\ AnswersCatalog(resp'[t], <<"[", "]">>))
            /\ (pc[t] = "open" /\ pc'[t] = "api_return" /\ file_state = "present") =>
                    AnswersCatalog(resp'[t], file_text)
            /\ pc'[t] = "page_return" =>
                    /\ resp'[t].status = 200
                    /\ resp'[t].page \in {"form.html", "success.html"}
                    /\ resp'[t].notice = ""]_vars

\* the catalog is served with the datastore down, the handle set and a
\* document stored
C8_Witness ==
    /\ datastore = "down"
    /\ mongo_client # NoClient
    /\ docs # <<>>
    /\ \E t \in DOMAIN pc :
        /\ pc[t] = "api_return"
        /\ resp[t].status = 200
        /\ resp[t].json = <<"[", "1", ",", "{", "}", "]">>

\* ------------------------------------------------------------------- C9

\* C9: the documents are as many as the 302 responses; a request calls
\* insert_one at most once and has answered 302 exactly when that call raised
\* nothing; a step either leaves the documents and the 302 responses as they
\* were, or appends one document, the one of a worker that then answers 302.
C9_OneDocumentPerRedirect ==
    /\ [](/\ Len(docs) = redirects
          /\ \A t \in DOMAIN pc :
                /\ inserts[t] <= 1
                /\ pc[t] = "submit_return" =>
                        ((resp[t].status = 302) <=> (inserts[t] = 1 /\ exc[t] = "None")))
    /\ [][\/ /\ docs' = docs
             /\ redirects' = redirects
             /\ \A t \in DOMAIN pc : resp'[t].status = 302 => resp[t].status = 302
          \/ \E t \in DOMAIN pc :
                /\ pc[t] = "insert_one"
                /\ pc'[t] = "submit_return"
                /\ resp'[t].status = 302
                /\ redirects' = redirects + 1
                /\ docs' = Append(docs, [name |-> name[t], email |-> email[t],
                                         message |-> message[t]])]_vars

\* one request stored and redirected, another failed and stored nothing
C9_Witness ==
    /\ Len(docs) = 1
    /\ redirects = 1
    /\ posts = 2
    /\ \E t \in DOMAIN pc :
        /\ pc[t] = "submit_return"
        /\ resp[t].status = 500
        /\ exc[t] = "PyMongoError"

\* ------------------------------------------------------------------- C4

\* C4: a GET /api that finds data.json missing, at the existence test or at
\* the open after it, answers 200 with [].
C4_MissingFileEmptyList ==
    [][\A t \in DOMAIN pc :
        (pc[t] \in {"idle", "open"} /\ pc'[t] = "api_return" /\ file_state = "missing") =>
            (resp'[t].status = 200 /\ resp'[t].json = <<"[", "]">>)]_vars

\* ------------------------------------------------------------------- C5

\* C5: a GET /api that opens and reads data.json answers 200 with the text of
\* the file when that text is a JSON array, 500 "backend file does not contain
\* a JSON list" when it is another JSON value, 500 "invalid JSON in backend
\* file" when it is no JSON text; and a 200 of GET /api always carries a JSON
\* array.
C5_CatalogAnswerFollowsContent ==
    /\ [](\A t \in DOMAIN pc :
            (pc[t] = "api_return" /\ resp[t].status = 200) =>
                (IsArrayText(resp[t].json) /\ resp[t].error = ""))
    /\ [][\A t \in DOMAIN pc :
            (pc[t] = "open" /\ pc'[t] = "api_return" /\ file_state = "present") =>
                AnswersCatalog(resp'[t], file_text)]_vars

\* [1,2] is served as [1,2]
C5_Witness ==
    \E t \in DOMAIN pc :
        /\ pc[t] = "api_return"
        /\ resp[t].status = 200
        /\ file_text = <<"[", "1", ",", "2", "]">>
        /\ resp[t].json = <<"[", "1", ",", "2", "]">>

====
